---------------------------- MODULE Spec2Model ----------------------------
(***************************************************************************)
(* A model of the DataHandler of src/data-handler.js: the record and       *)
(* dataset validators, the processing pipeline, the cache/load             *)
(* orchestrator (loadData), the analytics functions and the export, and   *)
(* of the data preparation and the point selection of the PowerTradeChart  *)
(* of src/chart.js, with the claims checked against it.                    *)
(*                                                                         *)
(* Conventions                                                             *)
(*  - A JSON value that may sit in a record field is a tagged record       *)
(*    [t, s, n]: t is the JavaScript kind, s the characters of a string,   *)
(*    n a number.  Prices are counted in units of 0.0001 (0.1 is 1000,     *)
(*    2.0 is 20000).  A calendar date YYYY-MM-DD is the integer YYYYMMDD,  *)
(*    which orders as the instant the string parses to.                    *)
(*  - "absent" is a key that the object does not have.                     *)
(*  - Arithmetic on prices is exact: sums, means and fitted lines are      *)
(*    integers or fractions [num, den], not IEEE doubles.                  *)
(*  - An array is its sequence of elements.  A function that changes the   *)
(*    array it is handed leaves the changed sequence in `given`.           *)
(***************************************************************************)
EXTENDS Integers, Sequences, FiniteSets, TLC

VARIABLES
    rawData,        \* DataHandler.rawData
    processedData,  \* DataHandler.processedData
    dataCache,      \* DataHandler.dataCache, a Map in insertion order
    isLoading,      \* DataHandler.isLoading
    calls,          \* the loadData calls: position and arguments of each
    last,           \* the most recent step: operation, call, outcome, result
    loadingEvent,   \* detail.isLoading of the last dataLoadingStateChanged
    storedSince,    \* urls stored into dataCache since the last clearCache
    input,          \* argument of the function being applied, as passed
    output,         \* its result
    phase,          \* "in" before the function is applied, "out" after
    given,          \* the array passed, as the caller finds it afterwards
    chartData,      \* PowerTradeChart.chartData
    isInitialized,  \* PowerTradeChart.isInitialized
    selectedPoint,  \* PowerTradeChart.selectedPoint, an index counted from 0
    pointSelected   \* detail of the last pointSelected event

vars == <<rawData, processedData, dataCache, isLoading, calls, last,
          loadingEvent, storedSince, input, output, phase, given,
          chartData, isInitialized, selectedPoint, pointSelected>>

handlerVars == <<rawData, processedData, dataCache, isLoading, calls, last,
                 loadingEvent, storedSince>>

fnVars == <<input, output, phase, given>>

chartVars == <<chartData, isInitialized, selectedPoint, pointSelected>>

-----------------------------------------------------------------------------
(* JSON values of record fields *)

Absent == [t |-> "absent", s |-> <<>>, n |-> 0]
Null == [t |-> "null", s |-> <<>>, n |-> 0]
Bool(b) == [t |-> "bool", s |-> <<>>, n |-> IF b THEN 1 ELSE 0]
Num(k) == [t |-> "num", s |-> <<>>, n |-> k]
Inf == [t |-> "inf", s |-> <<>>, n |-> 0]
Str(chars) == [t |-> "str", s |-> chars, n |-> 0]
\* the decimal literal of k/10000 as a string, e.g. "0.5"
NumStr(k) == [t |-> "numstr", s |-> <<>>, n |-> k]
\* the ISO date string of the day d = YYYYMMDD, e.g. "2020-01-01"
DateStr(d) == [t |-> "datestr", s |-> <<>>, n |-> d]
Obj == [t |-> "obj", s |-> <<>>, n |-> 0]

\* typeof value === 'string'
IsString(v) == v.t \in {"str", "numstr", "datestr"}

IsSpace(c) == c = " "

RECURSIVE TrimLeft(_)
TrimLeft(s) ==
    IF s # <<>> /\ IsSpace(Head(s)) THEN TrimLeft(Tail(s)) ELSE s

RECURSIVE TrimRight(_)
TrimRight(s) ==
    IF s # <<>> /\ IsSpace(s[Len(s)]) THEN TrimRight(SubSeq(s, 1, Len(s) - 1)) ELSE s

\* String.prototype.trim on the characters of a string
TrimChars(s) == TrimRight(TrimLeft(s))

\* value.trim(): a numeric or date literal has no surrounding whitespace
trim(v) == IF v.t = "str" THEN Str(TrimChars(v.s)) ELSE v

\* value.trim() === ''
IsEmptyString(v) == v.t = "str" /\ v.s = <<>>

EpochDay == 19700101

\* parseFloat(value): [kind, n] with kind "finite", "nan" or "inf".  A string
\* of letters, blanks and commas has no numeric prefix; a date literal
\* YYYY-MM-DD parses up to the first '-', giving the year.
parseFloat(v) ==
    CASE v.t = "num" -> [kind |-> "finite", n |-> v.n]
      [] v.t = "numstr" -> [kind |-> "finite", n |-> v.n]
      [] v.t = "datestr" -> [kind |-> "finite", n |-> (v.n \div 10000) * 10000]
      [] v.t = "inf" -> [kind |-> "inf", n |-> 0]
      [] v.t \in {"str", "null", "bool", "obj"} -> [kind |-> "nan", n |-> 0]

\* new Date(value): [valid, day].  null, booleans and numbers of the size of
\* a price are millisecond timestamps within 1970-01-01.
newDate(v) ==
    CASE v.t = "datestr" -> [valid |-> TRUE, day |-> v.n]
      [] v.t \in {"null", "bool", "num"} -> [valid |-> TRUE, day |-> EpochDay]
      [] v.t \in {"str", "inf", "obj"} -> [valid |-> FALSE, day |-> 0]

-----------------------------------------------------------------------------
(* validateRecord *)

\* The fields with power_company and bid_date exchanged
requiredFieldsSwapped == <<"user_name", "bid_date", "power_company", "bid_price">>

requiredFields == <<"user_name", "power_company", "bid_date", "bid_price">>

dataTypes ==
    [user_name |-> "string", power_company |-> "string",
     bid_date |-> "date", bid_price |-> "number"]

MinPrice == 1000
MaxPrice == 20000
MinDate == 20200101
\* new Date() at the moment of validation, as a day
NowDay == 20200103

\* An element of the decoded array: kind is what typeof and the null check
\* see, f the value under each required key ("absent": no such key).
NoFields == [fld \in {"user_name", "power_company", "bid_date", "bid_price"} |-> Absent]
Item(un, pc, bd, bp) ==
    [kind |-> "object",
     f |-> [user_name |-> un, power_company |-> pc, bid_date |-> bd, bid_price |-> bp]]
NullItem == [kind |-> "null", f |-> NoFields]
NumberItem == [kind |-> "number", f |-> NoFields]
ArrayItem == [kind |-> "array", f |-> NoFields]

Reject(reason, field) == [ok |-> FALSE, reason |-> reason, field |-> field]
Accept(value, parsed) == [ok |-> TRUE, value |-> value, parsed |-> parsed]

\* The price range made open at both ends
priceOutOfRangeOpen(n) == n <= MinPrice \/ n >= MaxPrice

\* numValue < 0.1 || numValue > 2.0
priceOutOfRange(n) == n < MinPrice \/ n > MaxPrice

\* The date range made open at both ends
dateOutOfRangeOpen(day) == day >= NowDay \/ day <= MinDate

\* dateValue > now || dateValue < minDate
dateOutOfRange(day) == day > NowDay \/ day < MinDate

\* The body of the for loop for one field: the `in` test, then the switch on
\* the field's expected type.
checkField(record, field) ==
    LET value == record.f[field]
        expectedType == dataTypes[field]
    IN  IF value.t = "absent" THEN Reject("MissingField", field)
        ELSE CASE expectedType = "string" ->
                    IF ~IsString(value) \/ IsEmptyString(trim(value))
                    THEN Reject("InvalidString", field)
                    ELSE Accept(trim(value), 0)
               [] expectedType = "number" ->
                    LET numValue == parseFloat(value)
                    IN  IF numValue.kind # "finite"
                        THEN Reject("InvalidNumber", field)
                        ELSE IF field = "bid_price" /\ priceOutOfRange(numValue.n)
                        THEN Reject("OutOfRange", field)
                        ELSE Accept(Num(numValue.n), 0)
               [] expectedType = "date" ->
                    LET dateValue == newDate(value)
                    IN  IF ~dateValue.valid
                        THEN Reject("InvalidDate", field)
                        ELSE IF dateOutOfRange(dateValue.day)
                        THEN Reject("OutOfRange", field)
                        ELSE Accept(value, dateValue.day)

\* The loop over requiredFields from position i on: the first field that
\* fails throws, and nothing after it is looked at.
RECURSIVE validateFrom(_, _)
validateFrom(record, i) ==
    IF i > Len(requiredFields) THEN Reject("", "")
    ELSE LET r == checkField(record, requiredFields[i])
         IN  IF r.ok THEN validateFrom(record, i + 1) ELSE r

validateRecord(record) ==
    IF record.kind \notin {"object", "array"} THEN Reject("InvalidRecord", "")
    ELSE LET failure == validateFrom(record, 1)
         IN  IF failure.reason # "" THEN failure
             ELSE [ok |-> TRUE,
                   rec |-> [user_name |-> checkField(record, "user_name").value,
                            power_company |-> checkField(record, "power_company").value,
                            bid_date |-> checkField(record, "bid_date").value,
                            bid_date_parsed |-> checkField(record, "bid_date").parsed,
                            bid_price |-> checkField(record, "bid_price").value]]

-----------------------------------------------------------------------------
(* validateDataStructure *)

\* A decoded JSON document (or undefined).  items holds the elements of an
\* array, or of the array under the `data` key of an object; dataT is the
\* kind of the value under `data` ("absent": the object has no such key).
DNull == [t |-> "null", b |-> FALSE, n |-> 0, s |-> <<>>, dataT |-> "absent", items |-> <<>>]
DUndefined == [DNull EXCEPT !.t = "undefined"]
DBool(v) == [DNull EXCEPT !.t = "bool", !.b = v]
DNum(k) == [DNull EXCEPT !.t = "num", !.n = k]
DStr(chars) == [DNull EXCEPT !.t = "str", !.s = chars]
DArray(elems) == [DNull EXCEPT !.t = "array", !.items = elems]
DEnvelope(elems) == [DNull EXCEPT !.t = "object", !.dataT = "array", !.items = elems]
DObject(kind) == [DNull EXCEPT !.t = "object", !.dataT = kind]

\* !jsonData
IsFalsy(d) ==
    \/ d.t \in {"null", "undefined"}
    \/ d.t = "bool" /\ ~d.b
    \/ d.t = "num" /\ d.n = 0
    \/ d.t = "str" /\ d.s = <<>>

\* jsonData.data && Array.isArray(jsonData.data): a primitive has no data
\* property, and only an array passes Array.isArray
HasDataArray(d) == d.t = "object" /\ d.dataT = "array"

\* The forEach over dataArray: the accepted records, in order
RECURSIVE validatedOf(_)
validatedOf(dataArray) ==
    IF dataArray = <<>> THEN <<>>
    ELSE LET r == validateRecord(Head(dataArray))
         IN  (IF r.ok THEN <<r.rec>> ELSE <<>>) \o validatedOf(Tail(dataArray))

\* The forEach over dataArray: the 1-based positions of the rejected records
errorsOf(dataArray) ==
    {i \in 1..Len(dataArray) : ~validateRecord(dataArray[i]).ok}

\* errors.length / dataArray.length > 0.2, as a comparison of fractions
QualityPercent == 20

\* A gate that lets every share of rejected records pass
qualityGateOpen(nErrors, nTotal) == nErrors > nTotal

\* The gate tripping at the threshold itself
qualityGateTripsAtThreshold(nErrors, nTotal) == nErrors * 100 >= QualityPercent * nTotal

qualityGateTrips(nErrors, nTotal) == nErrors * 100 > QualityPercent * nTotal

Throw(err) == [ok |-> FALSE, error |-> err, data |-> <<>>, rejected |-> 0, total |-> 0, warned |-> FALSE]

validateDataStructure(jsonData) ==
    IF IsFalsy(jsonData) THEN Throw("EmptyDataset")
    ELSE IF jsonData.t # "array" /\ ~HasDataArray(jsonData) THEN Throw("MalformedDataset")
    ELSE LET dataArray == jsonData.items
             validatedData == validatedOf(dataArray)
             errors == errorsOf(dataArray)
             nErr == Cardinality(errors)
         IN  IF Len(dataArray) = 0 THEN Throw("EmptyDataset")
             ELSE IF nErr > 0 /\ qualityGateTrips(nErr, Len(dataArray))
             THEN [Throw("DataQuality") EXCEPT !.rejected = nErr, !.total = Len(dataArray),
                                               !.warned = TRUE]
             ELSE IF Len(validatedData) = 0 THEN Throw("NoValidRecords")
             ELSE [ok |-> TRUE, error |-> "", data |-> validatedData, rejected |-> nErr,
                   total |-> Len(dataArray), warned |-> nErr > 0]

-----------------------------------------------------------------------------
(* processData *)

\* An insertion that puts an element behind those of the same date
RECURSIVE insertByDateAfterTies(_, _, _)
insertByDateAfterTies(item, sorted, ascending) ==
    IF sorted = <<>> THEN <<item>>
    ELSE LET dateA == newDate(item.bid_date).day
             dateB == newDate(Head(sorted).bid_date).day
             before == IF ascending THEN dateA < dateB ELSE dateA > dateB
         IN  IF before THEN <<item>> \o sorted
             ELSE <<Head(sorted)>> \o insertByDateAfterTies(item, Tail(sorted), ascending)

\* Array.prototype.sort with the comparator dateA - dateB: a stable sort,
\* here by insertion from the right so that equal dates keep their order.
RECURSIVE insertByDate(_, _, _)
insertByDate(item, sorted, ascending) ==
    IF sorted = <<>> THEN <<item>>
    ELSE LET dateA == newDate(item.bid_date).day
             dateB == newDate(Head(sorted).bid_date).day
             before == IF ascending THEN dateA <= dateB ELSE dateA >= dateB
         IN  IF before THEN <<item>> \o sorted
             ELSE <<Head(sorted)>> \o insertByDate(item, Tail(sorted), ascending)

RECURSIVE sortByDate(_, _)
sortByDate(data, ascending) ==
    IF data = <<>> THEN <<>>
    ELSE insertByDate(Head(data), sortByDate(Tail(data), ascending), ascending)

\* str.replace(/\s+/g, ' '): every run of whitespace becomes one blank
RECURSIVE collapseSpaces(_)
collapseSpaces(s) ==
    IF s = <<>> THEN <<>>
    ELSE IF IsSpace(Head(s))
    THEN <<" ">> \o collapseSpaces(TrimLeft(s))
    ELSE <<Head(s)>> \o collapseSpaces(Tail(s))

cleanString(v) == IF v.t = "str" THEN Str(TrimChars(collapseSpaces(v.s))) ELSE v

\* A rounding that always moves up to the next multiple of 0.001
roundPriceUp(price) == Num(((price.n + 10) \div 10) * 10)

\* Math.round(price * 1000) / 1000 on a price in units of 0.0001: to the
\* nearest multiple of 10, a half going up (exact arithmetic)
roundPrice(price) == Num(((price.n + 5) \div 10) * 10)

cleanData(data) ==
    [i \in 1..Len(data) |->
        [data[i] EXCEPT !.user_name = cleanString(data[i].user_name),
                        !.power_company = cleanString(data[i].power_company),
                        !.bid_price = roundPrice(data[i].bid_price)]]

\* new Date(dateStr).getMonth() + 1 and getFullYear(), the local calendar
\* day taken to be the day the string names
getMonth(dateStr) == (newDate(dateStr).day \div 100) % 100
getYear(dateStr) == newDate(dateStr).day \div 10000
getQuarter(dateStr) == (getMonth(dateStr) + 2) \div 3

\* toLocaleDateString('zh-CN', ...): year, month and day of the date
formatDate(dateStr) ==
    <<getYear(dateStr), getMonth(dateStr), newDate(dateStr).day % 100>>

enrichData(data) ==
    [i \in 1..Len(data) |->
        [user_name |-> data[i].user_name,
         power_company |-> data[i].power_company,
         bid_date |-> data[i].bid_date,
         bid_date_parsed |-> data[i].bid_date_parsed,
         bid_price |-> data[i].bid_price,
         id |-> i,
         bid_date_formatted |-> formatDate(data[i].bid_date),
         bid_price_formatted |-> data[i].bid_price.n \div 10,
         quarter |-> getQuarter(data[i].bid_date),
         month |-> getMonth(data[i].bid_date),
         year |-> getYear(data[i].bid_date)]]

processData(data) == enrichData(cleanData(sortByDate(data, TRUE)))

-----------------------------------------------------------------------------
(* Inputs of the validators *)

NoOutput == [none |-> TRUE]

StringFieldValues ==
    {Absent, Null, Num(5000), Str(<<>>), Str(<<" ">>), Str(<<"a">>), Str(<<" ", "a", " ">>)}

DateFieldValues ==
    {Absent, Null, Bool(TRUE), Str(<<"a">>), DateStr(20191231), DateStr(MinDate),
     DateStr(NowDay), DateStr(NowDay + 1)}

PriceFieldValues ==
    {Absent, Null, Obj, Str(<<"a">>), Inf, Num(MinPrice - 1), Num(MinPrice), Num(MaxPrice),
     Num(MaxPrice + 10), NumStr(5000)}

RecordInputs ==
    {Item(un, pc, bd, bp) : un \in StringFieldValues, pc \in {Absent, Num(5000), Str(<<"b">>)},
                            bd \in DateFieldValues, bp \in PriceFieldValues}
    \cup {Item(Str(<<"a">>), pc, DateStr(MinDate), Num(MinPrice)) : pc \in StringFieldValues}
    \cup {NullItem, NumberItem, ArrayItem}

\* validateRecord applied to one element
ApplyValidateRecord ==
    /\ phase = "in"
    /\ output' = validateRecord(input)
    /\ phase' = "out"
    /\ UNCHANGED <<input, given, handlerVars, chartVars>>

\* Three elements a dataset is made of: two records that differ and pass,
\* and one that is rejected
ItemA == Item(Str(<<"a">>), Str(<<"c">>), DateStr(20200102), Num(5000))
ItemB == Item(Str(<<" ", "b">>), Str(<<"c", " ", " ", "d">>), DateStr(MinDate), NumStr(12345))
ItemBad == Item(Str(<<"a">>), Str(<<"c">>), DateStr(20200102), Num(MaxPrice + 10))

DatasetItems == {ItemA, ItemB, ItemBad, NullItem}

MaxRecords == 10
MaxMixed == 3

SeqsUpTo(S, n) == UNION {[1..k -> S] : k \in 0..n}

\* An array of k elements, rejected ones at the positions in bad and, at the
\* others, the two passing records in turn
Patterned(k, bad) ==
    [i \in 1..k |-> IF i \in bad THEN ItemBad ELSE IF i % 2 = 1 THEN ItemA ELSE ItemB]

DecodedInputs ==
    {DNull, DUndefined, DBool(TRUE), DBool(FALSE), DNum(0), DNum(5), DStr(<<>>), DStr(<<"a">>),
     DObject("absent"), DObject("null"), DObject("string"), DObject("object")}
    \cup {DArray(Patterned(k, bad)) : k \in 0..MaxRecords, bad \in SUBSET (1..MaxRecords)}
    \cup {DArray(s) : s \in SeqsUpTo(DatasetItems, MaxMixed)}
    \cup {DEnvelope(s) : s \in SeqsUpTo(DatasetItems, MaxMixed)}

\* validateDataStructure applied to one decoded document
ApplyValidateDataStructure ==
    /\ phase = "in"
    /\ output' = validateDataStructure(input)
    /\ phase' = "out"
    /\ UNCHANGED <<input, given, handlerVars, chartVars>>

\* A record as validateRecord returns it
VRec(un, pc, day, price) ==
    validateRecord(Item(Str(un), Str(pc), DateStr(day), Num(price))).rec

\* Validated records: two pairs of one date each, told apart by their other
\* fields, with strings to clean and a price to round among them
ValidatedPool ==
    {VRec(<<"a">>, <<"c">>, 20200102, 5000),
     VRec(<<"b">>, <<"c", " ", " ", "d">>, 20200102, 12345),
     VRec(<<"a">>, <<"c">>, MinDate, 4000),
     VRec(<<"a">>, <<"d">>, MinDate, 6000),
     VRec(<<"b">>, <<"c">>, NowDay, 4504)}

MaxProcess == 4

ValidatedInputs == SeqsUpTo(ValidatedPool, MaxProcess)

\* processData applied to an array of validated records; sortByDate sorts
\* the array it is handed, so the caller's array is sorted afterwards
ApplyProcessData ==
    /\ phase = "in"
    /\ output' = processData(input)
    /\ given' = sortByDate(input, TRUE)
    /\ phase' = "out"
    /\ UNCHANGED <<input, handlerVars, chartVars>>

-----------------------------------------------------------------------------
(* Optional values: null or an omitted argument, or a value *)

None == [some |-> FALSE, val |-> <<>>]
Some(v) == [some |-> TRUE, val |-> v]

-----------------------------------------------------------------------------
(* The analytics functions: getLatestRecords, filterData, getDataStatistics *)

\* data || this.processedData
sourceDataOf(data) == IF data.some THEN data ELSE processedData

\* !sourceData || sourceData.length === 0
noSourceData(sourceData) == ~sourceData.some \/ Len(sourceData.val) = 0

\* Array.prototype.slice(0, end)
slice(arr, end) ==
    LET n == Len(arr)
        to == IF end < 0 THEN (IF n + end < 0 THEN 0 ELSE n + end)
              ELSE IF end > n THEN n ELSE end
    IN  SubSeq(arr, 1, to)

\* count = 10: the default of an omitted count
DefaultCount == 10

\* The first records of the copy in ascending order
getLatestRecordsAscending(count, data) ==
    LET sourceData == sourceDataOf(data)
    IN  IF noSourceData(sourceData) THEN <<>>
        ELSE slice(sortByDate(sourceData.val, TRUE),
                   IF count.some THEN count.val ELSE DefaultCount)

\* getLatestRecords(count = 10, data = null): sortByDate is handed a copy,
\* [...sourceData], so the source array stays as it is
getLatestRecords(count, data) ==
    LET sourceData == sourceDataOf(data)
    IN  IF noSourceData(sourceData) THEN <<>>
        ELSE slice(sortByDate(sourceData.val, FALSE),
                   IF count.some THEN count.val ELSE DefaultCount)

\* String.prototype.includes
includes(str, sub) ==
    \E i \in 0..(Len(str) - Len(sub)) : SubSeq(str, i + 1, i + Len(sub)) = sub

\* The truth value of filters.<key>: an omitted key is undefined, and 0 and
\* the empty string are falsy as well
truthyNumber(v) == v.some /\ v.val # 0
truthyString(v) == v.some /\ v.val # <<>>
truthyDate(v) == v.some

\* The callback of sourceData.filter: TRUE when the item is kept
filterCallback(filters, item) ==
    LET itemDate == newDate(item.bid_date).day
    IN  IF truthyDate(filters.startDate) /\ itemDate < newDate(filters.startDate.val).day
        THEN FALSE
        ELSE IF truthyDate(filters.endDate) /\ itemDate > newDate(filters.endDate.val).day
        THEN FALSE
        ELSE IF truthyNumber(filters.minPrice) /\ item.bid_price.n < filters.minPrice.val
        THEN FALSE
        ELSE IF truthyNumber(filters.maxPrice) /\ item.bid_price.n > filters.maxPrice.val
        THEN FALSE
        ELSE IF truthyString(filters.userName)
                /\ ~includes(item.user_name.s, filters.userName.val)
        THEN FALSE
        ELSE IF truthyString(filters.powerCompany)
                /\ ~includes(item.power_company.s, filters.powerCompany.val)
        THEN FALSE
        ELSE TRUE

filterData(filters, data) ==
    LET sourceData == sourceDataOf(data)
    IN  IF noSourceData(sourceData) THEN <<>>
        ELSE SelectSeq(sourceData.val, LAMBDA item : filterCallback(filters, item))

\* A quotient a / b kept exact, as a fraction
Fraction(a, b) == [num |-> a, den |-> b]

\* [...numbers].sort((a, b) => a - b)
RECURSIVE insertNumber(_, _)
insertNumber(x, sorted) ==
    IF sorted = <<>> THEN <<x>>
    ELSE IF x <= Head(sorted) THEN <<x>> \o sorted
    ELSE <<Head(sorted)>> \o insertNumber(x, Tail(sorted))

RECURSIVE sortNumbers(_)
sortNumbers(numbers) ==
    IF numbers = <<>> THEN <<>>
    ELSE insertNumber(Head(numbers), sortNumbers(Tail(numbers)))

\* A median that is the upper central value whatever the count
calculateMedianUpper(numbers) ==
    Fraction(sortNumbers(numbers)[(Len(numbers) \div 2) + 1], 1)

\* calculateMedian: middle is a 0-based index, sorted[middle] the element
\* at position middle + 1
calculateMedian(numbers) ==
    LET sorted == sortNumbers(numbers)
        middle == Len(sorted) \div 2
    IN  IF Len(sorted) % 2 = 0
        THEN Fraction(sorted[middle] + sorted[middle + 1], 2)
        ELSE Fraction(sorted[middle + 1], 1)

\* prices.reduce((sum, price) => sum + price, 0)
RECURSIVE sumOf(_)
sumOf(numbers) == IF numbers = <<>> THEN 0 ELSE Head(numbers) + sumOf(Tail(numbers))

\* Math.min(...numbers) and Math.max(...numbers) of a non-empty array
minOf(numbers) ==
    CHOOSE x \in {numbers[i] : i \in 1..Len(numbers)} :
        \A i \in 1..Len(numbers) : x <= numbers[i]
maxOf(numbers) ==
    CHOOSE x \in {numbers[i] : i \in 1..Len(numbers)} :
        \A i \in 1..Len(numbers) : x >= numbers[i]

\* getDataStatistics: null for no data, else the summary
getDataStatistics(data) ==
    LET sourceData == sourceDataOf(data)
    IN  IF noSourceData(sourceData) THEN None
        ELSE LET src == sourceData.val
                 prices == [i \in 1..Len(src) |-> src[i].bid_price.n]
                 dates == [i \in 1..Len(src) |-> newDate(src[i].bid_date).day]
             IN  Some([totalRecords |-> Len(src),
                       priceStats |->
                          [min |-> minOf(prices),
                           max |-> maxOf(prices),
                           average |-> Fraction(sumOf(prices), Len(prices)),
                           median |-> calculateMedian(prices)],
                       dateRange |-> [earliest |-> minOf(dates), latest |-> maxOf(dates)],
                       uniqueUsers |-> Cardinality({src[i].user_name : i \in 1..Len(src)}),
                       uniqueCompanies |->
                          Cardinality({src[i].power_company : i \in 1..Len(src)})])

-----------------------------------------------------------------------------
(* The data preparation of the chart: src/chart.js *)

\* A sort of the chart's data from the latest date to the earliest
sortedDataDescending(data) == sortByDate(data, FALSE)

\* data.sort((a, b) => new Date(a.bid_date) - new Date(b.bid_date)): the
\* array handed to prepareChartData, as the sort leaves it
sortedData(data) == sortByDate(data, TRUE)

\* generateTimeBasedColors: i / (dataLength - 1) for the 0-based index i;
\* a fraction of denominator 0 is the NaN of 0 / 0
generateTimeBasedColors(data) ==
    [i \in 1..Len(data) |-> Fraction(i - 1, Len(data) - 1)]

\* sum of index * price over the 0-based indices
RECURSIVE sumXYOf(_, _)
sumXYOf(yValues, index) ==
    IF yValues = <<>> THEN 0
    ELSE index * Head(yValues) + sumXYOf(Tail(yValues), index + 1)

\* A fitted line whose end is taken one index too far
calculateLinearTrendLineBeyond(data) ==
    LET n == Len(data)
        yValues == [i \in 1..n |-> data[i].bid_price.n]
        sumX == sumOf([i \in 1..n |-> i - 1])
        sumY == sumOf(yValues)
        sumXY == sumXYOf(yValues, 0)
        sumXX == sumOf([i \in 1..n |-> (i - 1) * (i - 1)])
        slope == Fraction(n * sumXY - sumX * sumY, n * sumXX - sumX * sumX)
        intercept == Fraction(sumY * slope.den - slope.num * sumX, slope.den * n)
        endY == Fraction(slope.num * n * n + intercept.num, intercept.den)
    IN  IF n = 0 THEN [ok |-> FALSE, error |-> "TypeError"]
        ELSE [ok |-> TRUE, x |-> <<data[1].bid_date, data[n].bid_date>>,
              y |-> <<intercept, endY>>]

\* calculateLinearTrendLine: the least-squares line over the indices
\* 0..n-1, of which the values at 0 and at n - 1 are returned.  slope is the
\* fraction of the two sums; intercept = (sumY - slope * sumX) / n and
\* endY = slope * (n - 1) + intercept are brought to one denominator.
\* data[0].bid_date of an empty array is a TypeError.
calculateLinearTrendLine(data) ==
    LET n == Len(data)
        yValues == [i \in 1..n |-> data[i].bid_price.n]
        sumX == sumOf([i \in 1..n |-> i - 1])
        sumY == sumOf(yValues)
        sumXY == sumXYOf(yValues, 0)
        sumXX == sumOf([i \in 1..n |-> (i - 1) * (i - 1)])
        slope == Fraction(n * sumXY - sumX * sumY, n * sumXX - sumX * sumX)
        intercept == Fraction(sumY * slope.den - slope.num * sumX, slope.den * n)
        startY == intercept
        endY == Fraction(slope.num * (n - 1) * n + intercept.num, intercept.den)
    IN  IF n = 0 THEN [ok |-> FALSE, error |-> "TypeError"]
        ELSE [ok |-> TRUE, x |-> <<data[1].bid_date, data[n].bid_date>>,
              y |-> <<startY, endY>>]

\* prepareChartData: the scatter trace of the sorted data and the trend
\* line; the TypeError of an empty array leaves no result
prepareChartData(data) ==
    LET trendLine == calculateLinearTrendLine(sortedData(data))
    IN  IF ~trendLine.ok THEN trendLine
        ELSE [ok |-> TRUE,
              scatter |-> [x |-> [i \in 1..Len(data) |-> sortedData(data)[i].bid_date],
                           y |-> [i \in 1..Len(data) |-> sortedData(data)[i].bid_price],
                           color |-> generateTimeBasedColors(sortedData(data))],
              trendLine |-> trendLine]

-----------------------------------------------------------------------------
(* exportData, and JSON text: JSON.stringify and JSON.parse.  A text is its
   sequence of tokens; the text of a string or number token is spelled out
   character by character, punctuation between tokens is left out. *)

Token(k, name, chars) == [k |-> k, name |-> name, s |-> chars]
ArrOpen == Token("[", "", <<>>)
ArrClose == Token("]", "", <<>>)
ObjOpen == Token("{", "", <<>>)
ObjClose == Token("}", "", <<>>)

Digits == <<"0", "1", "2", "3", "4", "5", "6", "7", "8", "9">>

IsDigit(c) == \E i \in 1..10 : Digits[i] = c

DigitValue(c) == (CHOOSE i \in 1..10 : Digits[i] = c) - 1

\* The decimal digits of a natural number
RECURSIVE digitsOf(_)
digitsOf(n) ==
    IF n < 10 THEN <<Digits[n + 1]>> ELSE digitsOf(n \div 10) \o <<Digits[(n % 10) + 1]>>

\* The natural number a sequence of digits spells
RECURSIVE valueOfDigits(_)
valueOfDigits(chars) ==
    IF chars = <<>> THEN 0
    ELSE 10 * valueOfDigits(SubSeq(chars, 1, Len(chars) - 1)) + DigitValue(chars[Len(chars)])

RECURSIVE stripTrailingZeros(_)
stripTrailingZeros(chars) ==
    IF chars # <<>> /\ chars[Len(chars)] = "0"
    THEN stripTrailingZeros(SubSeq(chars, 1, Len(chars) - 1))
    ELSE chars

\* n in exactly width digits, zeros in front
padDigits(n, width) ==
    [i \in 1..(width - Len(digitsOf(n))) |-> "0"] \o digitsOf(n)

\* The text of a number: a price of k units of 0.0001 is written with its
\* integer part and the decimals it needs, none if it is whole
numberText(k) ==
    LET fraction == stripTrailingZeros(padDigits(k % 10000, 4))
    IN  digitsOf(k \div 10000) \o (IF fraction = <<>> THEN <<>> ELSE <<".">> \o fraction)

\* The number a number text spells, in units of 0.0001
parseNumberText(chars) ==
    LET dots == {i \in 1..Len(chars) : chars[i] = "."}
        dot == IF dots = {} THEN Len(chars) + 1 ELSE CHOOSE i \in dots : TRUE
        whole == SubSeq(chars, 1, dot - 1)
        fraction == SubSeq(chars, dot + 1, Len(chars))
        padded == fraction \o [i \in 1..(4 - Len(fraction)) |-> "0"]
    IN  valueOfDigits(whole) * 10000 + valueOfDigits(padded)

\* The characters of the date string YYYY-MM-DD
dateText(day) ==
    padDigits(day \div 10000, 4) \o <<"-">> \o padDigits((day \div 100) % 100, 2)
        \o <<"-">> \o padDigits(day % 100, 2)

IsDateText(chars) ==
    /\ Len(chars) = 10
    /\ chars[5] = "-"
    /\ chars[8] = "-"
    /\ \A i \in {1, 2, 3, 4, 6, 7, 9, 10} : IsDigit(chars[i])

parseDateText(chars) ==
    valueOfDigits(SubSeq(chars, 1, 4)) * 10000 + valueOfDigits(SubSeq(chars, 6, 7)) * 100
        + valueOfDigits(SubSeq(chars, 9, 10))

\* The characters of a string value of a record
charsOf(v) == IF v.t = "datestr" THEN dateText(v.n) ELSE v.s

\* A string text that leaves quotes and backslashes as they are
RECURSIVE escapeNothing(_)
escapeNothing(chars) ==
    IF chars = <<>> THEN <<>> ELSE <<Head(chars)>> \o escapeNothing(Tail(chars))

\* JSON.stringify of a string, between the quotes: a quote and a backslash
\* get a backslash in front
RECURSIVE escapeChars(_)
escapeChars(chars) ==
    IF chars = <<>> THEN <<>>
    ELSE (IF Head(chars) \in {"\"", "\\"} THEN <<"\\", Head(chars)>> ELSE <<Head(chars)>>)
            \o escapeChars(Tail(chars))

stringText(chars) == <<"\"">> \o escapeChars(chars) \o <<"\"">>

\* JSON.parse of a string text from behind the opening quote: up to the
\* first quote that has no backslash in front
RECURSIVE readChars(_)
readChars(text) ==
    IF text = <<>> \/ Head(text) = "\"" THEN <<>>
    ELSE IF Head(text) = "\\" /\ Len(text) >= 2
    THEN <<text[2]>> \o readChars(Tail(Tail(text)))
    ELSE <<Head(text)>> \o readChars(Tail(text))

readString(text) == readChars(Tail(text))

Key(name) == Token("key", name, <<>>)
StringToken(chars) == Token("string", "", stringText(chars))
NumberToken(chars) == Token("number", "", chars)

\* JSON.stringify of one processed record: its own properties in the order
\* they were created; the Date of bid_date_parsed by its toJSON
stringifyRecord(r) ==
    <<ObjOpen,
      Key("user_name"), StringToken(charsOf(r.user_name)),
      Key("power_company"), StringToken(charsOf(r.power_company)),
      Key("bid_date"), StringToken(charsOf(r.bid_date)),
      Key("bid_date_parsed"),
          StringToken(dateText(r.bid_date_parsed) \o <<"T", "0", "0", ":", "0", "0", "Z">>),
      Key("bid_price"), NumberToken(numberText(r.bid_price.n)),
      Key("id"), NumberToken(digitsOf(r.id)),
      Key("bid_date_formatted"),
          StringToken(digitsOf(r.bid_date_formatted[1]) \o <<"/">>
                        \o digitsOf(r.bid_date_formatted[2]) \o <<"/">>
                        \o digitsOf(r.bid_date_formatted[3])),
      Key("bid_price_formatted"), StringToken(digitsOf(r.bid_price_formatted)),
      Key("quarter"), StringToken(<<"Q">> \o digitsOf(r.quarter)),
      Key("month"), NumberToken(digitsOf(r.month)),
      Key("year"), NumberToken(digitsOf(r.year)),
      ObjClose>>

RECURSIVE stringifyRecords(_)
stringifyRecords(data) ==
    IF data = <<>> THEN <<>>
    ELSE stringifyRecord(Head(data)) \o stringifyRecords(Tail(data))

\* JSON.stringify(sourceData, null, 2)
stringify(data) == <<ArrOpen>> \o stringifyRecords(data) \o <<ArrClose>>

\* exportData(format, data) for the format 'json' and for a format that is
\* not supported
exportData(format, data) ==
    LET sourceData == sourceDataOf(data)
    IN  IF noSourceData(sourceData) THEN [ok |-> FALSE, error |-> "NoData", text |-> <<>>]
        ELSE IF format = "json" THEN [ok |-> TRUE, error |-> "", text |-> stringify(sourceData.val)]
        ELSE [ok |-> FALSE, error |-> "UnsupportedFormat", text |-> <<>>]

\* JSON.parse of a value token: a number, or a string, which is a date
\* string when it has the form YYYY-MM-DD
parseValue(token) ==
    IF token.k = "number" THEN Num(parseNumberText(token.s))
    ELSE LET chars == readString(token.s)
         IN  IF IsDateText(chars) THEN DateStr(parseDateText(chars)) ELSE Str(chars)

\* The properties of an object from its key and value tokens; of them the
\* record keeps those validateRecord reads
RECURSIVE parseProperties(_, _)
parseProperties(tokens, f) ==
    IF Len(tokens) < 2 THEN f
    ELSE LET name == tokens[1].name
             rest == Tail(Tail(tokens))
         IN  IF name \in DOMAIN f
             THEN parseProperties(rest, [f EXCEPT ![name] = parseValue(tokens[2])])
             ELSE parseProperties(rest, f)

\* The objects of an array, one after the other
RECURSIVE parseObjects(_)
parseObjects(tokens) ==
    IF tokens = <<>> THEN <<>>
    ELSE LET close == CHOOSE i \in 1..Len(tokens) :
                         /\ tokens[i].k = "}"
                         /\ \A j \in 1..(i - 1) : tokens[j].k # "}"
         IN  <<[kind |-> "object",
                f |-> parseProperties(SubSeq(tokens, 2, close - 1), NoFields)]>>
                \o parseObjects(SubSeq(tokens, close + 1, Len(tokens)))

\* JSON.parse of the text of an array of objects
JSONparse(text) == DArray(parseObjects(SubSeq(text, 2, Len(text) - 1)))

-----------------------------------------------------------------------------
(* Inputs of the analytics functions *)

\* Processed records, taken from processData
ProcessedPool == {processData(<<v>>)[1] : v \in ValidatedPool}

MaxDataset == 3

Datasets == SeqsUpTo(ProcessedPool, MaxDataset)

\* An omitted data argument, or an array of processed records
DataArguments == {None} \cup {Some(d) : d \in Datasets}

Counts == {None} \cup {Some(n) : n \in 0..(MaxDataset + 1)}

MaxFiltered == 2

\* The filter objects: every key omitted or supplied, a price bound also
\* with the value 0 and a name also as the empty string
FilterSets ==
    [startDate : {None, Some(DateStr(20200102))},
     endDate : {None, Some(DateStr(20200102))},
     minPrice : {None, Some(0), Some(5000)},
     maxPrice : {None, Some(0), Some(5000)},
     userName : {None, Some(<<>>), Some(<<"a">>)},
     powerCompany : {None, Some(<<"d">>)}]

FilterInputs ==
    [filters : FilterSets,
     data : {None} \cup {Some(d) : d \in SeqsUpTo(ProcessedPool, MaxFiltered)}]

ApplyFilterData ==
    /\ phase = "in"
    /\ output' = filterData(input.filters, input.data)
    /\ phase' = "out"
    /\ UNCHANGED <<input, given, handlerVars, chartVars>>

MaxStats == 4

StatsInputs == {None} \cup {Some(d) : d \in SeqsUpTo(ProcessedPool, MaxStats)}

ApplyGetDataStatistics ==
    /\ phase = "in"
    /\ output' = getDataStatistics(input)
    /\ phase' = "out"
    /\ UNCHANGED <<input, given, handlerVars, chartVars>>

\* Records of the chart's data with prices 1, 2, .. 5 on five days
TrendPool ==
    {[bid_date |-> DateStr(20200100 + k), bid_price |-> Num(k * 10000)] : k \in 1..5}

MaxTrend == 5

TrendInputs == SeqsUpTo(TrendPool, MaxTrend)

ApplyCalculateLinearTrendLine ==
    /\ phase = "in"
    /\ output' = calculateLinearTrendLine(input)
    /\ phase' = "out"
    /\ UNCHANGED <<input, given, handlerVars, chartVars>>

\* Validated records for the round trip through JSON text: prices at and
\* next to both ends of the range, names with blanks to collapse and with a
\* quote and a backslash
RoundTripPool ==
    {VRec(<<"a", "\"", "b">>, <<"c", " ", " ", "d">>, 20200102, MinPrice),
     VRec(<<"a">>, <<"c", "\\">>, MinDate, MaxPrice),
     VRec(<<"b">>, <<"c">>, NowDay, MinPrice + 4),
     VRec(<<"a", " ", "b">>, <<"d">>, 20200102, MaxPrice - 4),
     VRec(<<"b">>, <<"d">>, MinDate, 12345)}

MaxRoundTrip == 3

\* The datasets process produces, and an empty one
RoundTripInputs == {processData(v) : v \in SeqsUpTo(RoundTripPool, MaxRoundTrip)}

ExportFormats == {"json", "xml"}

\* exportData(format, data)
ApplyExportData(format) ==
    /\ phase = "in"
    /\ output' = exportData(format, Some(input))
    /\ phase' = "exported"
    /\ UNCHANGED <<input, given, handlerVars, chartVars>>

\* The exported text decoded and handed to validateDataStructure
ApplyDecodeAndValidate ==
    /\ phase = "exported"
    /\ output.ok
    /\ output' = validateDataStructure(JSONparse(output.text))
    /\ phase' = "out"
    /\ UNCHANGED <<input, given, handlerVars, chartVars>>

ApplyGenerateTimeBasedColors ==
    /\ phase = "in"
    /\ output' = generateTimeBasedColors(input)
    /\ phase' = "out"
    /\ UNCHANGED <<input, given, handlerVars, chartVars>>

ApplyGetLatestRecords ==
    /\ phase = "in"
    /\ output' = getLatestRecords(input.count, input.data)
    /\ phase' = "out"
    /\ UNCHANGED <<input, given, handlerVars, chartVars>>

-----------------------------------------------------------------------------
(* The cache/load orchestrator: loadData, clearCache, getCacheInfo *)

\* Map.prototype.has / get / set on a Map kept as its entries in insertion
\* order; set on an existing key replaces the value where it stands
cacheHas(cache, key) == \E i \in 1..Len(cache) : cache[i].key = key
cacheGet(cache, key) == cache[CHOOSE i \in 1..Len(cache) : cache[i].key = key].value
\* A set that rebuilds the Map from the one entry
cacheSetOnly(cache, key, value) == <<[key |-> key, value |-> value]>>

cacheSet(cache, key, value) ==
    IF cacheHas(cache, key)
    THEN [i \in 1..Len(cache) |->
            IF cache[i].key = key THEN [key |-> key, value |-> value] ELSE cache[i]]
    ELSE Append(cache, [key |-> key, value |-> value])

getCacheInfo ==
    [size |-> Len(dataCache), keys |-> [i \in 1..Len(dataCache) |-> dataCache[i].key]]

Urls == {"a.json", "b.json"}
MaxCalls == 3
CallIds == 1..MaxCalls

\* What fetch settles with, and what response.json() settles with
FetchOutcomes == {"ok", "notok", "reject"}
LoadPayloads ==
    {DArray(<<ItemA, ItemB>>), DEnvelope(<<ItemB>>), DArray(<<ItemBad, ItemA>>),
     DObject("absent"), DNum(0)}
NoBody == DUndefined

NewCall == [pc |-> "new", url |-> "", useCache |-> FALSE]
DoneCall == [pc |-> "done", url |-> "", useCache |-> FALSE]
InFlight(c) == calls[c].pc \in {"awaitFetch", "awaitJson"}
Exited(c) == calls[c].pc = "done"

InitStep ==
    [op |-> "init", url |-> "", useCache |-> FALSE, outcome |-> "none",
     error |-> "", value |-> None, fetched |-> FALSE, validated |-> FALSE,
     errorEvent |-> FALSE, evicted |-> 0]

\* line 36: useCache && this.dataCache.has(dataUrl)
servedFromCache(url, useCache) == useCache /\ cacheHas(dataCache, url)

\* The hit answered from this.processedData
cachedResultCurrent(url) == processedData.val

\* line 38: return this.dataCache.get(dataUrl)
cachedResult(url) == cacheGet(dataCache, url)

\* A finally block that notifies and leaves the flag as it is
finallyBlockKeepsFlag ==
    /\ isLoading' = isLoading
    /\ loadingEvent' = "false"

\* lines 86-89, the finally block: runs on every exit of the try statement
finallyBlock ==
    /\ isLoading' = FALSE
    /\ loadingEvent' = "false"

\* A catch block that drops the data held so far
catchBlockResets ==
    /\ rawData' = None
    /\ processedData' = None
    /\ UNCHANGED <<dataCache, storedSince>>

\* lines 82-85, the catch block: dispatches dataError and rethrows
catchBlock ==
    UNCHANGED <<rawData, processedData, dataCache, storedSince>>

\* lines 70-76: the cache is written only when useCache is set.  sortByDate
\* has sorted validatedData in place by then, so rawData is the sorted array.
storeResult(url, useCache, validatedData, processed) ==
    /\ dataCache' = IF useCache THEN cacheSet(dataCache, url, processed) ELSE dataCache
    /\ storedSince' = IF useCache THEN storedSince \cup {url} ELSE storedSince
    /\ rawData' = Some(sortByDate(validatedData, TRUE))
    /\ processedData' = Some(processed)

Failed(url, useCache, op, err, fetched, validated) ==
    [op |-> op, url |-> url, useCache |-> useCache, outcome |-> "failed",
     error |-> err, value |-> None, fetched |-> fetched, validated |-> validated,
     errorEvent |-> TRUE, evicted |-> 0]

\* loadData up to its first await: lines 33-56
loadData(url, useCache) ==
    /\ \E c \in CallIds : calls[c].pc = "new"
    /\ LET c == CHOOSE k \in CallIds :
                    calls[k].pc = "new" /\ \A j \in 1..(k - 1) : calls[j].pc # "new"
       IN  IF servedFromCache(url, useCache)
           THEN /\ calls' = [calls EXCEPT ![c].pc = "done"]
                /\ last' = [op |-> "loadData", url |-> url, useCache |-> useCache,
                            outcome |-> "cacheHit", error |-> "",
                            value |-> Some(cachedResult(url)), fetched |-> FALSE,
                            validated |-> FALSE, errorEvent |-> FALSE, evicted |-> 0]
                /\ UNCHANGED <<rawData, processedData, dataCache, storedSince>>
                /\ finallyBlock
           ELSE IF isLoading
           THEN /\ calls' = [calls EXCEPT ![c].pc = "done"]
                /\ last' = Failed(url, useCache, "loadData", "ConcurrentLoad", FALSE, FALSE)
                /\ catchBlock
                /\ finallyBlock
           ELSE /\ isLoading' = TRUE
                /\ loadingEvent' = "true"
                /\ calls' = [calls EXCEPT ![c] = [pc |-> "awaitFetch", url |-> url,
                                                  useCache |-> useCache]]
                /\ last' = [op |-> "loadData", url |-> url, useCache |-> useCache,
                            outcome |-> "none", error |-> "", value |-> None,
                            fetched |-> TRUE, validated |-> FALSE, errorEvent |-> FALSE,
                            evicted |-> 0]
                /\ UNCHANGED <<rawData, processedData, dataCache, storedSince>>
    /\ UNCHANGED <<fnVars, chartVars>>

\* The fetch of call c settles: lines 50-62
fetchSettles(c, r) ==
    /\ calls[c].pc = "awaitFetch"
    /\ IF r = "ok"
       THEN /\ calls' = [calls EXCEPT ![c].pc = "awaitJson"]
            /\ last' = [op |-> "fetchSettles", url |-> calls[c].url,
                        useCache |-> calls[c].useCache, outcome |-> "none", error |-> "",
                        value |-> None, fetched |-> TRUE, validated |-> FALSE,
                        errorEvent |-> FALSE, evicted |-> 0]
            /\ UNCHANGED <<rawData, processedData, dataCache, storedSince, isLoading,
                           loadingEvent>>
       ELSE /\ calls' = [calls EXCEPT ![c] = DoneCall]
            /\ last' = Failed(calls[c].url, calls[c].useCache, "fetchSettles",
                              IF r = "notok" THEN "Retrieval" ELSE "Network", TRUE, FALSE)
            /\ catchBlock
            /\ finallyBlock
    /\ UNCHANGED <<fnVars, chartVars>>

\* response.json() of call c settles with a decoded body, or rejects
\* (parsed = FALSE): lines 62-89
jsonSettles(c, parsed, body) ==
    /\ calls[c].pc = "awaitJson"
    /\ LET url == calls[c].url
           useCache == calls[c].useCache
           v == validateDataStructure(body)
       IN  IF ~parsed
           THEN /\ calls' = [calls EXCEPT ![c] = DoneCall]
                /\ last' = Failed(url, useCache, "jsonSettles", "Syntax", TRUE, FALSE)
                /\ catchBlock
                /\ finallyBlock
           ELSE IF ~v.ok
           THEN /\ calls' = [calls EXCEPT ![c] = DoneCall]
                /\ last' = Failed(url, useCache, "jsonSettles", v.error, TRUE, TRUE)
                /\ catchBlock
                /\ finallyBlock
           ELSE /\ calls' = [calls EXCEPT ![c] = DoneCall]
                /\ storeResult(url, useCache, v.data, processData(v.data))
                /\ last' = [op |-> "jsonSettles", url |-> url,
                            useCache |-> useCache, outcome |-> "success", error |-> "",
                            value |-> Some(processData(v.data)), fetched |-> TRUE,
                            validated |-> TRUE, errorEvent |-> FALSE, evicted |-> 0]
                /\ finallyBlock
    /\ UNCHANGED <<fnVars, chartVars>>

\* A clear that evicts the oldest entry only
clearCacheOldest ==
    /\ dataCache' = IF dataCache = <<>> THEN <<>> ELSE Tail(dataCache)
    /\ storedSince' = {}
    /\ last' = [InitStep EXCEPT !.op = "clearCache", !.evicted = Len(dataCache)]
    /\ UNCHANGED <<rawData, processedData, isLoading, calls, loadingEvent, fnVars, chartVars>>

\* lines 471-474
clearCache ==
    /\ dataCache' = <<>>
    /\ storedSince' = {}
    /\ last' = [InitStep EXCEPT !.op = "clearCache", !.evicted = Len(dataCache)]
    /\ UNCHANGED <<rawData, processedData, isLoading, calls, loadingEvent, fnVars, chartVars>>

-----------------------------------------------------------------------------
(* A session: the handler's datasets passed to the analytics functions and
   to the chart *)

\* The datasets the handler holds or has just returned.  An array is known
\* here by its contents: arrays of equal contents count as one array.
HeldDatasets ==
    {dataCache[i].value : i \in 1..Len(dataCache)}
    \cup (IF processedData.some THEN {processedData.val} ELSE {})
    \cup (IF last.value.some THEN {last.value.val} ELSE {})

\* The result of an analytics call, as the caller keeps it
ArrayResult(arr) == [none |-> FALSE, kind |-> "array", val |-> arr]
SummaryResult(summary) == [none |-> FALSE, kind |-> "summary", val |-> summary]

\* The arrays a caller can hand to the chart: a dataset, or the array that
\* getLatestRecords or filterData returned last
SessionArrays ==
    HeldDatasets \cup (IF ~output.none /\ output.kind = "array" THEN {output.val} ELSE {})

SessionCounts == {None, Some(1)}

SessionFilters ==
    {[startDate |-> None, endDate |-> None, minPrice |-> Some(6000), maxPrice |-> None,
      userName |-> None, powerCompany |-> None]}

\* What a reference to the array arr shows once the chart has sorted the
\* array data in place
afterSort(arr, data) == IF arr = data THEN sortedData(data) ELSE arr

\* The in-place sort of prepareChartData(data), seen through every
\* reference to the array
sortInPlace(data) ==
    /\ chartData' = Some(sortedData(data))
    /\ processedData' = IF processedData.some
                         THEN Some(afterSort(processedData.val, data))
                         ELSE processedData
    /\ dataCache' = [i \in 1..Len(dataCache) |->
                        [key |-> dataCache[i].key,
                         value |-> afterSort(dataCache[i].value, data)]]
    /\ last' = IF last.value.some
                THEN [last EXCEPT !.value = Some(afterSort(last.value.val, data))]
                ELSE last
    /\ output' = IF ~output.none /\ output.kind = "array"
                  THEN ArrayResult(afterSort(output.val, data))
                  ELSE output
    /\ UNCHANGED <<rawData, isLoading, calls, loadingEvent, storedSince, input, phase, given>>

\* initChart(data): an empty array is refused before anything is stored
initChart(data) ==
    /\ Len(data) > 0
    /\ sortInPlace(data)
    /\ isInitialized' = TRUE
    /\ UNCHANGED <<selectedPoint, pointSelected>>

\* updateChart(newData): chartData is set and the data prepared; of an
\* empty array the trend line throws after that
updateChart(newData) ==
    /\ sortInPlace(newData)
    /\ UNCHANGED <<isInitialized, selectedPoint, pointSelected>>

\* this.chartData && this.chartData[pointIndex]: the chart holds an array
\* and the array has an element at pointIndex
hasPoint(pointIndex) ==
    chartData.some /\ pointIndex >= 0 /\ pointIndex < Len(chartData.val)

\* handlePointClick(eventData): eventData is None when it has no points,
\* and else the pointIndex of its first point.  The restyle of
\* highlightPoint changes the plot only.
handlePointClick(eventData) ==
    /\ IF eventData.some /\ hasPoint(eventData.val)
       THEN LET pointIndex == eventData.val
                selectedData == chartData.val[pointIndex + 1]
            IN  /\ selectedPoint' = Some(pointIndex)
                /\ pointSelected' = Some([data |-> selectedData, index |-> pointIndex])
       ELSE UNCHANGED <<selectedPoint, pointSelected>>
    /\ UNCHANGED <<chartData, isInitialized, handlerVars, fnVars>>

\* clearSelection(): the restyle changes the plot only
clearSelection ==
    /\ selectedPoint' = None
    /\ UNCHANGED <<chartData, isInitialized, pointSelected, handlerVars, fnVars>>

\* getLatestRecords, filterData and getDataStatistics called with a
\* dataset, or without one for this.processedData
SessionLatest(count, data) ==
    /\ output' = ArrayResult(getLatestRecords(count, data))
    /\ UNCHANGED <<handlerVars, chartVars, input, phase, given>>

SessionFilter(filters, data) ==
    /\ output' = ArrayResult(filterData(filters, data))
    /\ UNCHANGED <<handlerVars, chartVars, input, phase, given>>

SessionSummarize(data) ==
    /\ output' = SummaryResult(getDataStatistics(data))
    /\ UNCHANGED <<handlerVars, chartVars, input, phase, given>>

-----------------------------------------------------------------------------
(* Specifications *)

HandlerInit ==
    /\ rawData = None
    /\ processedData = None
    /\ dataCache = <<>>
    /\ isLoading = FALSE
    /\ calls = [c \in CallIds |-> NewCall]
    /\ last = InitStep
    /\ loadingEvent = "none"
    /\ storedSince = {}

\* The chart after its constructor
ChartInit ==
    /\ chartData = None
    /\ isInitialized = FALSE
    /\ selectedPoint = None
    /\ pointSelected = None

FnIdle ==
    /\ input = NoOutput
    /\ output = NoOutput
    /\ phase = "idle"
    /\ given = NoOutput

\* The orchestrator under every interleaving of calls and settlements
Init == HandlerInit /\ ChartInit /\ FnIdle

Next ==
    \/ \E url \in Urls, useCache \in BOOLEAN : loadData(url, useCache)
    \/ \E c \in CallIds, r \in FetchOutcomes : fetchSettles(c, r)
    \/ \E c \in CallIds, body \in LoadPayloads : jsonSettles(c, TRUE, body)
    \/ \E c \in CallIds : jsonSettles(c, FALSE, NoBody)
    \/ clearCache

Spec == Init /\ [][Next]_vars

\* Some settlement of the pending call c: of its fetch, then of its json()
callSettles(c) ==
    \/ \E r \in FetchOutcomes : fetchSettles(c, r)
    \/ \E body \in LoadPayloads : jsonSettles(c, TRUE, body)
    \/ jsonSettles(c, FALSE, NoBody)

\* The retrieval collaborator eventually responds to every request: a
\* promise a call awaits is eventually settled
FairSpec == Spec /\ \A c \in CallIds : WF_vars(callSettles(c))

\* The loads of a session: one call fewer than the orchestrator is checked
\* with
SessionLoad(url, useCache) == calls[MaxCalls - 1].pc = "new" /\ loadData(url, useCache)

SessionData == {None} \cup {Some(d) : d \in HeldDatasets}

\* The orchestrator together with the analytics functions and the chart,
\* in every order
NextSession ==
    \/ \E url \in Urls, useCache \in BOOLEAN : SessionLoad(url, useCache)
    \/ \E c \in CallIds, r \in FetchOutcomes : fetchSettles(c, r)
    \/ \E c \in CallIds, body \in LoadPayloads : jsonSettles(c, TRUE, body)
    \/ \E c \in CallIds : jsonSettles(c, FALSE, NoBody)
    \/ clearCache
    \/ \E count \in SessionCounts, data \in SessionData : SessionLatest(count, data)
    \/ \E filters \in SessionFilters, data \in SessionData : SessionFilter(filters, data)
    \/ \E data \in SessionData : SessionSummarize(data)
    \/ \E data \in SessionArrays : initChart(data)
    \/ \E newData \in SessionArrays : updateChart(newData)

SpecSession == Init /\ [][NextSession]_vars

\* The arrays handed to the chart and the events of its plot
ChartPool ==
    {[bid_date |-> DateStr(20200100 + k), bid_price |-> Num(k * 5000)] : k \in 1..3}

MaxChart == 3

ChartArrays == SeqsUpTo(ChartPool, MaxChart)

ClickEvents == {None} \cup {Some(pointIndex) : pointIndex \in (-1)..MaxChart}

\* The chart alone under every order of its operations
NextChart ==
    \/ \E data \in ChartArrays : initChart(data)
    \/ \E newData \in ChartArrays : updateChart(newData)
    \/ \E eventData \in ClickEvents : handlePointClick(eventData)
    \/ clearSelection

SpecChart == Init /\ [][NextChart]_vars

\* validateRecord over the record inputs
InitRecord ==
    /\ HandlerInit
    /\ ChartInit
    /\ input \in RecordInputs
    /\ output = NoOutput
    /\ phase = "in"
    /\ given = input

NextRecord == ApplyValidateRecord

SpecRecord == InitRecord /\ [][NextRecord]_vars

\* validateDataStructure over the decoded inputs
InitDataset ==
    /\ HandlerInit
    /\ ChartInit
    /\ input \in DecodedInputs
    /\ output = NoOutput
    /\ phase = "in"
    /\ given = input

NextDataset == ApplyValidateDataStructure

SpecDataset == InitDataset /\ [][NextDataset]_vars

\* processData over the arrays of validated records
InitProcess ==
    /\ HandlerInit
    /\ ChartInit
    /\ input \in ValidatedInputs
    /\ output = NoOutput
    /\ phase = "in"
    /\ given = input

NextProcess == ApplyProcessData

SpecProcess == InitProcess /\ [][NextProcess]_vars

\* getLatestRecords over counts and arrays of processed records
InitLatest ==
    /\ HandlerInit
    /\ ChartInit
    /\ input \in [count : Counts, data : DataArguments]
    /\ output = NoOutput
    /\ phase = "in"
    /\ given = input.data

NextLatest == ApplyGetLatestRecords

SpecLatest == InitLatest /\ [][NextLatest]_vars

\* filterData over filter objects and arrays of processed records
InitFilter ==
    /\ HandlerInit
    /\ ChartInit
    /\ input \in FilterInputs
    /\ output = NoOutput
    /\ phase = "in"
    /\ given = input.data

NextFilter == ApplyFilterData

SpecFilter == InitFilter /\ [][NextFilter]_vars

\* getDataStatistics over arrays of processed records
InitStats ==
    /\ HandlerInit
    /\ ChartInit
    /\ input \in StatsInputs
    /\ output = NoOutput
    /\ phase = "in"
    /\ given = input

NextStats == ApplyGetDataStatistics

SpecStats == InitStats /\ [][NextStats]_vars

\* calculateLinearTrendLine over arrays of records, in any order
InitTrend ==
    /\ HandlerInit
    /\ ChartInit
    /\ input \in TrendInputs
    /\ output = NoOutput
    /\ phase = "in"
    /\ given = input

NextTrend == ApplyCalculateLinearTrendLine

SpecTrend == InitTrend /\ [][NextTrend]_vars

\* exportData over the datasets of processData, then the text decoded and
\* validated
InitRoundTrip ==
    /\ HandlerInit
    /\ ChartInit
    /\ input \in RoundTripInputs
    /\ output = NoOutput
    /\ phase = "in"
    /\ given = input

NextRoundTrip ==
    \/ \E format \in ExportFormats : ApplyExportData(format)
    \/ ApplyDecodeAndValidate

SpecRoundTrip == InitRoundTrip /\ [][NextRoundTrip]_vars

\* generateTimeBasedColors over the same arrays
NextColors == ApplyGenerateTimeBasedColors

SpecColors == InitTrend /\ [][NextColors]_vars

-----------------------------------------------------------------------------
(* Claims about the orchestrator (Spec, FairSpec) *)

\* A step in which call c runs loadData up to its first await or its exit
LoadDataStep(c) == calls[c].pc = "new" /\ calls'[c].pc # "new"

\* A step in which the pending call c exits
ExitStep(c) == InFlight(c) /\ calls'[c].pc = "done"

\* C1: at any time at most one loadData call has passed the in-flight guard
\* and not yet exited.
C1_AtMostOneLoadInFlight == Cardinality({c \in CallIds : InFlight(c)}) <= 1

\* C2: a loadData call that is not served from the cache, made while an
\* earlier call is still pending, fails with the concurrent-load error and
\* performs no retrieval.
C2_SecondLoadRejected ==
    [][\A c \in CallIds :
          (/\ LoadDataStep(c)
           /\ ~servedFromCache(last'.url, last'.useCache)
           /\ \E d \in CallIds : InFlight(d))
          => (/\ last'.outcome = "failed"
              /\ last'.error = "ConcurrentLoad"
              /\ ~last'.fetched
              /\ calls'[c].pc = "done")]_vars

\* C3: every call that passed the guard eventually exits, given that the
\* retrieval responds, and in the state in which it exits isLoading is false.
C3_LoadExitsWithFlagReset ==
    /\ \A c \in CallIds : InFlight(c) ~> Exited(c)
    /\ [][\A c \in CallIds : ExitStep(c) => isLoading' = FALSE]_vars

\* C3 witness: a pending call has just failed the quality gate and the flag
\* is down.
C3_Witness ==
    /\ last.op = "jsonSettles"
    /\ last.outcome = "failed"
    /\ last.error = "DataQuality"
    /\ ~isLoading

\* C4 as stated: a call with useCache set and an entry for the url returns
\* that entry, without retrieval, validation or a change of the cache,
\* whether or not a load is in flight; a call with useCache unset never
\* returns the entry and performs retrieval.
C4_CacheHitOriginal ==
    [][\A c \in CallIds : LoadDataStep(c) =>
          /\ (last'.useCache /\ cacheHas(dataCache, last'.url))
                => (/\ last'.outcome = "cacheHit"
                    /\ last'.value = Some(cacheGet(dataCache, last'.url))
                    /\ ~last'.fetched
                    /\ ~last'.validated
                    /\ calls'[c].pc = "done"
                    /\ dataCache' = dataCache)
          /\ ~last'.useCache
                => (/\ last'.outcome # "cacheHit"
                    /\ last'.fetched)]_vars

\* C4 as amended: as above, but a call with useCache unset performs retrieval
\* unless the in-flight guard rejects it (isLoading set), in which case it
\* fails with the concurrent-load error; in neither case is the entry returned.
C4_CacheHit ==
    [][\A c \in CallIds : LoadDataStep(c) =>
          /\ (last'.useCache /\ cacheHas(dataCache, last'.url))
                => (/\ last'.outcome = "cacheHit"
                    /\ last'.value = Some(cacheGet(dataCache, last'.url))
                    /\ ~last'.fetched
                    /\ ~last'.validated
                    /\ calls'[c].pc = "done"
                    /\ dataCache' = dataCache)
          /\ ~last'.useCache
                => (/\ last'.outcome # "cacheHit"
                    /\ last'.value = None
                    /\ IF isLoading
                       THEN ~last'.fetched /\ last'.error = "ConcurrentLoad"
                       ELSE last'.fetched /\ calls'[c].pc = "awaitFetch")]_vars

\* C4 witness: an entry was returned from the cache while another call was
\* awaiting its retrieval.
C4_Witness ==
    /\ last.op = "loadData"
    /\ last.outcome = "cacheHit"
    /\ last.value = Some(cacheGet(dataCache, last.url))
    /\ \E d \in CallIds : InFlight(d)

\* The cache entries under the keys other than url are the same in both
EntriesElsewhereSame(before, after, url) ==
    \A k \in Urls \ {url} :
        /\ cacheHas(before, k) = cacheHas(after, k)
        /\ cacheHas(before, k) => cacheGet(before, k) = cacheGet(after, k)

\* A step in which a pending call returns the dataset it retrieved
SuccessStep(c) == ExitStep(c) /\ last'.outcome = "success"

\* C5 as stated: after a successful retrieving load, for either value of
\* useCache, the cache maps the url to the returned dataset and the other
\* entries are unchanged.
C5_StoreOriginal ==
    [][\A c \in CallIds : SuccessStep(c) =>
          /\ cacheHas(dataCache', last'.url)
          /\ Some(cacheGet(dataCache', last'.url)) = last'.value
          /\ EntriesElsewhereSame(dataCache, dataCache', last'.url)]_vars

\* C5 as amended: that holds of a load with useCache set; a successful load
\* with useCache unset leaves the cache as it was.
C5_Store ==
    [][\A c \in CallIds : SuccessStep(c) =>
          IF last'.useCache
          THEN /\ cacheHas(dataCache', last'.url)
               /\ Some(cacheGet(dataCache', last'.url)) = last'.value
               /\ Cardinality({i \in 1..Len(dataCache') : dataCache'[i].key = last'.url}) = 1
               /\ EntriesElsewhereSame(dataCache, dataCache', last'.url)
          ELSE dataCache' = dataCache]_vars

\* C5 witness: a load with useCache set has stored its dataset beside the
\* entry of another url.
C5_Witness ==
    /\ last.outcome = "success"
    /\ last.useCache
    /\ Len(dataCache) = 2
    /\ Some(cacheGet(dataCache, last.url)) = last.value

\* C6: no step of a load other than its successful return changes the cache,
\* rawData or processedData; a failing load returns no dataset; and a
\* non-success status fails before validation is run.
C6_FailedLoadLeavesState ==
    [][\A c \in CallIds :
          (calls'[c] # calls[c] /\ last'.outcome \notin {"success", "cacheHit"})
          => (/\ dataCache' = dataCache
              /\ rawData' = rawData
              /\ processedData' = processedData
              /\ last'.value = None
              /\ (last'.error = "Retrieval" => ~last'.validated))]_vars

\* C6 witness: a load has failed validation in a handler that holds data and
\* a cache entry.
C6_Witness ==
    /\ last.outcome = "failed"
    /\ last.error \in {"DataQuality", "MalformedDataset", "EmptyDataset"}
    /\ last.validated
    /\ processedData.some
    /\ dataCache # <<>>

CacheKeys == {dataCache[i].key : i \in 1..Len(dataCache)}

\* size and keys agree, and the keys are the urls stored since the last clear
CacheInfoConsistent ==
    /\ getCacheInfo.size = Len(getCacheInfo.keys)
    /\ Cardinality(CacheKeys) = Len(dataCache)
    /\ CacheKeys = storedSince

ClearedIsEmpty ==
    last.op = "clearCache" => getCacheInfo.size = 0 /\ getCacheInfo.keys = <<>>

-----------------------------------------------------------------------------
(* Claims about validateDataStructure (SpecDataset) *)

\* The input resolves to a sequence: an array, or an object with an array
\* under data
ResolvesToSequence == input.t = "array" \/ (input.t = "object" /\ input.dataT = "array")

RejectedCount == Cardinality({i \in 1..Len(input.items) : ~validateRecord(input.items[i]).ok})

\* The records accepted of the input's elements, in the order of the input
AcceptedInOrder ==
    LET idx == SelectSeq([i \in 1..Len(input.items) |-> i],
                         LAMBDA i : validateRecord(input.items[i]).ok)
    IN  [j \in 1..Len(idx) |-> validateRecord(input.items[idx[j]]).rec]

\* C8: over a non-empty sequence of N records of which R are rejected,
\* validateDataStructure fails with the data-quality error exactly when
\* 5*R > N, and otherwise returns the N-R accepted records in their order.
C8_QualityGate ==
    (phase = "out" /\ ResolvesToSequence /\ Len(input.items) > 0) =>
        IF 5 * RejectedCount > Len(input.items)
        THEN ~output.ok /\ output.error = "DataQuality"
        ELSE /\ output.ok
             /\ output.data = AcceptedInOrder
             /\ Len(output.data) = Len(input.items) - RejectedCount

\* C8 witness: 2 of 10 records are rejected and 8 are returned.
C8_Witness ==
    /\ phase = "out"
    /\ ResolvesToSequence
    /\ Len(input.items) = 10
    /\ RejectedCount = 2
    /\ output.ok
    /\ Len(output.data) = 8

\* C9: null and undefined fail as empty, a sequence or an object with a
\* sequence under data is used (and fails as empty when its length is 0),
\* and every other value fails as malformed.
C9_ShapeClassification ==
    phase = "out" =>
        CASE input.t \in {"null", "undefined"} ->
                ~output.ok /\ output.error = "EmptyDataset"
          [] ResolvesToSequence ->
                IF Len(input.items) = 0
                THEN ~output.ok /\ output.error = "EmptyDataset"
                ELSE output.ok \/ output.error \in {"DataQuality", "NoValidRecords"}
          [] OTHER ->
                ~output.ok /\ output.error = "MalformedDataset"

-----------------------------------------------------------------------------
(* Claims about validateRecord (SpecRecord) *)

FieldOrder == <<"user_name", "power_company", "bid_date", "bid_price">>

\* The positions in FieldOrder of the fields that are absent or invalid
FailingFields == {i \in 1..4 : ~checkField(input, FieldOrder[i]).ok}

FirstFailing == CHOOSE i \in FailingFields : \A j \in FailingFields : i <= j

\* C10: the fields are examined in the order user_name, power_company,
\* bid_date, bid_price; the reason reported is that of the first one that is
\* absent or invalid, the missing-field reason when its key is absent; and a
\* record is accepted only if all four pass.
C10_FirstFailingFieldReported ==
    (phase = "out" /\ input.kind = "object") =>
        IF FailingFields = {} THEN output.ok
        ELSE /\ ~output.ok
             /\ output.field = FieldOrder[FirstFailing]
             /\ output.reason = checkField(input, FieldOrder[FirstFailing]).reason
             /\ input.f[FieldOrder[FirstFailing]] = Absent
                   => output.reason = "MissingField"

\* C10 witness: power_company is absent after a valid user_name and before
\* an invalid bid_date, and it is the field reported missing.
C10_Witness ==
    /\ phase = "out"
    /\ input.kind = "object"
    /\ checkField(input, "user_name").ok
    /\ input.f["power_company"] = Absent
    /\ ~checkField(input, "bid_date").ok
    /\ ~output.ok
    /\ output.reason = "MissingField"
    /\ output.field = "power_company"

\* The three fields other than `field` pass their own checks
OthersValid(field) ==
    /\ input.kind = "object"
    /\ \A i \in 1..4 : FieldOrder[i] # field => checkField(input, FieldOrder[i]).ok

\* The value coerces to a finite number in [0.1, 2.0]
CoercesToPriceInRange(v) ==
    /\ v.t # "absent"
    /\ parseFloat(v).kind = "finite"
    /\ 1000 <= parseFloat(v).n
    /\ parseFloat(v).n <= 20000

\* C11: a record whose other fields are valid is accepted if and only if
\* its bid_price coerces to a finite number p with 0.1 <= p <= 2.0; 0.1 and
\* 2.0 are accepted, 0.0999 and 2.001 rejected, and the bid_price of every
\* accepted record lies in [0.1, 2.0].
C11_PriceRange ==
    /\ (phase = "out" /\ OthersValid("bid_price")) =>
          /\ output.ok <=> CoercesToPriceInRange(input.f["bid_price"])
          /\ input.f["bid_price"] \in {Num(1000), Num(20000)} => output.ok
          /\ input.f["bid_price"] \in {Num(999), Num(20010)} => ~output.ok
    /\ (phase = "out" /\ output.ok) =>
          /\ 1000 <= output.rec.bid_price.n
          /\ output.rec.bid_price.n <= 20000

\* C11 witness: a record priced exactly 2.0 with valid other fields has been
\* accepted.
C11_Witness ==
    /\ phase = "out"
    /\ OthersValid("bid_price")
    /\ input.f["bid_price"] = Num(20000)
    /\ output.ok
    /\ output.rec.bid_price = Num(20000)

\* The value parses to a date between 2020-01-01 and the day of validation
ParsesToDateInRange(v) ==
    /\ v.t # "absent"
    /\ newDate(v).valid
    /\ 20200101 <= newDate(v).day
    /\ newDate(v).day <= NowDay

\* C12: a record whose other fields are valid is accepted if and only if
\* its bid_date parses to a date d with 2020-01-01 <= d <= now; 2020-01-01 is
\* accepted, 2019-12-31 and a date after now are rejected; an accepted
\* record keeps the original bid_date string verbatim.
C12_DateRange ==
    (phase = "out" /\ OthersValid("bid_date")) =>
        /\ output.ok <=> ParsesToDateInRange(input.f["bid_date"])
        /\ input.f["bid_date"] = DateStr(20200101) => output.ok
        /\ input.f["bid_date"] \in {DateStr(20191231), DateStr(NowDay + 1)} => ~output.ok
        /\ output.ok => output.rec.bid_date = input.f["bid_date"]

\* C12 witness: a record dated 2020-01-01 with valid other fields has been
\* accepted with its date string unchanged.
C12_Witness ==
    /\ phase = "out"
    /\ OthersValid("bid_date")
    /\ input.f["bid_date"] = DateStr(20200101)
    /\ output.ok
    /\ output.rec.bid_date = DateStr(20200101)

-----------------------------------------------------------------------------
(* Claims about processData (SpecProcess) *)

DateOf(r) == newDate(r.bid_date).day

\* The fields of a record that validation has set
Core(r) ==
    [user_name |-> r.user_name, power_company |-> r.power_company,
     bid_date |-> r.bid_date, bid_date_parsed |-> r.bid_date_parsed,
     bid_price |-> r.bid_price]

CoreSeq(s) == [i \in 1..Len(s) |-> Core(s[i])]

\* The records of s dated day, in the order they have in s
OnDay(s, day) == SelectSeq(s, LAMBDA r : DateOf(r) = day)

Ascending(s) == \A i, k \in 1..Len(s) : i < k => DateOf(s[i]) <= DateOf(s[k])

\* C13: process returns a permutation of its input records ordered
\* ascending by bid_date in which records of equal date keep their original
\* relative order: for every date the records of that date are the cleaned
\* input records of that date, in the input's order.
C13_StableAscendingPermutation ==
    phase = "out" =>
        /\ Len(output) = Len(input)
        /\ Ascending(output)
        /\ \A i \in 1..Len(input) :
              OnDay(CoreSeq(output), DateOf(input[i]))
                  = OnDay(CoreSeq(cleanData(input)), DateOf(input[i]))

\* C13 witness: two different records of one date, handed over behind a
\* record of a later date, come out in front of it in their original order.
C13_Witness ==
    /\ phase = "out"
    /\ Len(input) >= 3
    /\ DateOf(input[1]) > DateOf(input[2])
    /\ DateOf(input[2]) = DateOf(input[3])
    /\ input[2] # input[3]
    /\ Core(output[1]) = cleanData(input)[2]
    /\ Core(output[2]) = cleanData(input)[3]

\* The fields the idempotence is stated for
Settled(r) ==
    [id |-> r.id, quarter |-> r.quarter, month |-> r.month, year |-> r.year,
     bid_price |-> r.bid_price, user_name |-> r.user_name,
     power_company |-> r.power_company, bid_date |-> r.bid_date]

\* C15: process applied to its own output gives the same records in the
\* same order, with identical id, quarter, month, year, bid_price,
\* user_name and power_company.
C15_ProcessIdempotent ==
    phase = "out" =>
        LET again == processData(output)
        IN  /\ Len(again) = Len(output)
            /\ \A i \in 1..Len(output) : Settled(again[i]) = Settled(output[i])

\* C15 witness: an input that process had to reorder, clean and round, and
\* whose output a second pass leaves as it is.
C15_Witness ==
    /\ phase = "out"
    /\ Len(input) >= 2
    /\ DateOf(input[1]) > DateOf(input[2])
    /\ \E i \in 1..Len(input) : cleanData(input)[i] # input[i]
    /\ processData(output) = output

\* C16: no pipeline or analytics operation changes the sequence it is
\* given; here, the array handed to process holds the same records in the
\* same order after the call as before it.
C16_ProcessLeavesInput ==
    phase = "out" => given = input

-----------------------------------------------------------------------------
(* Claims about getLatestRecords (SpecLatest) *)

Min(a, b) == IF a < b THEN a ELSE b

Descending(s) == \A i, k \in 1..Len(s) : i < k => DateOf(s[i]) >= DateOf(s[k])

\* How many times r stands in s
Count(s, r) == Cardinality({i \in 1..Len(s) : s[i] = r})

\* out keeps some of the records of src, and no record it leaves out is
\* more recent than one it keeps
MostRecentOf(out, src) ==
    /\ \A k \in 1..Len(out) : Count(out, out[k]) <= Count(src, out[k])
    /\ \A i \in 1..Len(src) :
          Count(out, src[i]) < Count(src, src[i])
              => \A k \in 1..Len(out) : DateOf(out[k]) >= DateOf(src[i])

\* The n of a call: the count passed, or 10
CountOf(count) == IF count.some THEN count.val ELSE 10

\* C17: latest(n, dataset) returns exactly min(n, |dataset|) records in
\* descending order of bid_date that are the n most recent of the dataset,
\* n being 10 when omitted; it returns the empty sequence for an empty
\* dataset and leaves the source sequence as it was.
C17_LatestRecords ==
    (phase = "out" /\ input.data.some) =>
        /\ Len(output) = Min(CountOf(input.count), Len(input.data.val))
        /\ Descending(output)
        /\ MostRecentOf(output, input.data.val)
        /\ input.data.val = <<>> => output = <<>>
        /\ given = input.data

\* C17 witness: latest(2) on records dated [01-01, 01-03, 01-02] has
\* returned those dated [01-03, 01-02], the source still in its order.
C17_Witness ==
    /\ phase = "out"
    /\ input.data.some
    /\ input.count = Some(2)
    /\ [i \in 1..Len(input.data.val) |-> DateOf(input.data.val[i])]
           = <<20200101, 20200103, 20200102>>
    /\ [i \in 1..Len(output) |-> DateOf(output[i])] = <<20200103, 20200102>>
    /\ given = input.data

-----------------------------------------------------------------------------
(* Claims about filterData (SpecFilter) *)

\* A record is excluded when it fails a predicate that was supplied
Excluded(f, r) ==
    \/ f.startDate.some /\ DateOf(r) < newDate(f.startDate.val).day
    \/ f.endDate.some /\ DateOf(r) > newDate(f.endDate.val).day
    \/ f.minPrice.some /\ r.bid_price.n < f.minPrice.val
    \/ f.maxPrice.some /\ r.bid_price.n > f.maxPrice.val
    \/ f.userName.some /\ ~includes(r.user_name.s, f.userName.val)
    \/ f.powerCompany.some /\ ~includes(r.power_company.s, f.powerCompany.val)

\* C18: filter returns the subsequence of the dataset, in its order, of
\* exactly the records that no supplied predicate excludes, for every
\* combination of supplied and omitted predicates and every value of a
\* supplied bound; bounds are inclusive and omitted predicates exclude
\* nothing.
C18_FilterBySuppliedPredicates ==
    (phase = "out" /\ input.data.some) =>
        output = SelectSeq(input.data.val, LAMBDA r : ~Excluded(input.filters, r))

\* The same with every supplied price bound different from 0
C18_FilterByNonZeroBounds ==
    (/\ phase = "out"
     /\ input.data.some
     /\ input.filters.minPrice # Some(0)
     /\ input.filters.maxPrice # Some(0)) =>
        output = SelectSeq(input.data.val, LAMBDA r : ~Excluded(input.filters, r))

-----------------------------------------------------------------------------
(* Claims about getDataStatistics (SpecStats) *)

PricesOf(d) == [i \in 1..Len(d) |-> d[i].bid_price.n]

\* The k-th smallest of the numbers: fewer than k of them are below it and
\* at least k are not above it
KthSmallest(numbers, k) ==
    CHOOSE v \in {numbers[i] : i \in 1..Len(numbers)} :
        /\ Cardinality({i \in 1..Len(numbers) : numbers[i] < v}) < k
        /\ Cardinality({i \in 1..Len(numbers) : numbers[i] <= v}) >= k

\* Twice the median: twice the central value of an odd count, the sum of
\* the two central values of an even one
TwiceMedian(numbers) ==
    LET n == Len(numbers)
    IN  IF n % 2 = 1 THEN 2 * KthSmallest(numbers, (n + 1) \div 2)
        ELSE KthSmallest(numbers, n \div 2) + KthSmallest(numbers, (n \div 2) + 1)

\* The fraction q lies between the integers lo and hi
Between(lo, q, hi) == lo * q.den <= q.num /\ q.num <= hi * q.den

\* The fraction q is the integer x
IsNumber(q, x) == q.num = x * q.den

-----------------------------------------------------------------------------
(* Claims about calculateLinearTrendLine (SpecTrend) *)

\* The price at index i is a + d * i: every step between neighbours is the
\* same
Colinear(prices) ==
    \A i \in 2..Len(prices) : prices[i] - prices[i - 1] = prices[2] - prices[1]

-----------------------------------------------------------------------------
(* Claims about the datasets of a session (SpecSession) *)

\* Sorted ascending by bid_date, the record at position i with id i
SortedWithIds(d) == Ascending(d) /\ \A i \in 1..Len(d) : d[i].id = i

\* C14: in every reachable state, after any sequence of load, latest,
\* filter, summarize, chart-init and chart-update, every dataset returned
\* by load or held in the cache is sorted ascending by bid_date and its
\* record at position i has id = i.
C14_DatasetsSortedWithIds ==
    \A d \in HeldDatasets : SortedWithIds(d)

\* C14 witness: a cached dataset of two records was handed to the chart,
\* which has sorted it, after latest returned its records in the opposite
\* order.
C14_Witness ==
    /\ isInitialized
    /\ chartData.some
    /\ Len(chartData.val) >= 2
    /\ \E i \in 1..Len(dataCache) : dataCache[i].value = chartData.val
    /\ ~output.none
    /\ output.kind = "array"
    /\ Len(output.val) >= 2
    /\ ~Ascending(output.val)

\* C21: the trend of a single record is a defined segment whose start and
\* end are finite numbers equal to that record's price, never the result
\* of a division by zero.
C21_SingleRecordFlatSegment ==
    (phase = "out" /\ Len(input) = 1) =>
        /\ output.ok
        /\ output.y[1].den # 0
        /\ output.y[2].den # 0
        /\ IsNumber(output.y[1], input[1].bid_price.n)
        /\ IsNumber(output.y[2], input[1].bid_price.n)

-----------------------------------------------------------------------------
(* Claims about generateTimeBasedColors (SpecColors) *)

\* The fraction q is a number, and it is a / b
IsQuotient(q, a, b) == q.den # 0 /\ q.num * b = a * q.den

\* C22: for a non-empty dataset of length L, colorPositions returns L
\* values, each a defined number in [0, 1], non-decreasing with position:
\* position i maps to i / (L - 1) when L >= 2, and the single record of
\* L = 1 maps to 0.
C22_ColorPositions ==
    (phase = "out" /\ Len(input) >= 1) =>
        /\ Len(output) = Len(input)
        /\ \A i \in 1..Len(output) :
              IF Len(input) = 1 THEN IsQuotient(output[i], 0, 1)
              ELSE IsQuotient(output[i], i - 1, Len(input) - 1)

\* The same for the datasets of two records or more, with the bounds and
\* the order spelled out
C22_ColorPositionsFromTwo ==
    (phase = "out" /\ Len(input) >= 2) =>
        /\ Len(output) = Len(input)
        /\ IsQuotient(output[1], 0, 1)
        /\ IsQuotient(output[Len(output)], 1, 1)
        /\ \A i \in 1..Len(output) :
              /\ IsQuotient(output[i], i - 1, Len(input) - 1)
              /\ output[i].den > 0
              /\ 0 <= output[i].num
              /\ output[i].num <= output[i].den
        /\ \A i \in 1..(Len(output) - 1) :
              output[i].num * output[i + 1].den <= output[i + 1].num * output[i].den

-----------------------------------------------------------------------------
(* Claims about exportData and the validators (SpecRoundTrip) *)

\* The fields of the required schema
Required(r) ==
    [user_name |-> r.user_name, power_company |-> r.power_company,
     bid_date |-> r.bid_date, bid_price |-> r.bid_price]

\* C23: for every dataset D that process produced, the text of
\* export("json", D), decoded and validated, is accepted with no record
\* rejected and gives records whose user_name, power_company, bid_date and
\* bid_price are those of D, record by record in the same order.
C23_JsonRoundTrip ==
    phase = "out" =>
        /\ output.ok
        /\ output.rejected = 0
        /\ Len(output.data) = Len(input)
        /\ \A i \in 1..Len(input) : Required(output.data[i]) = Required(input[i])

\* C23 witness: a dataset of three records, among them a name with a quote
\* and the prices 0.1 and 2.0, has come back from its JSON text.
C23_Witness ==
    /\ phase = "out"
    /\ Len(input) = 3
    /\ \E i \in 1..3 : \E k \in 1..Len(input[i].user_name.s) : input[i].user_name.s[k] = "\""
    /\ \E i \in 1..3 : input[i].bid_price = Num(1000)
    /\ \E i \in 1..3 : input[i].bid_price = Num(20000)
    /\ output.ok
    /\ Len(output.data) = 3

\* C24: validateDataStructure never fails with the no-valid-records error
\* and never returns an empty sequence: past the empty-input check and the
\* quality gate at least one record has been accepted.
C24_NoValidRecordsUnreachable ==
    phase = "out" =>
        /\ output.error # "NoValidRecords"
        /\ output.ok => Len(output.data) >= 1

\* C24 witness: 1 of 5 records is rejected, the gate lets the array pass and
\* 4 records are returned.
C24_Witness ==
    /\ phase = "out"
    /\ ResolvesToSequence
    /\ Len(input.items) = 5
    /\ RejectedCount = 1
    /\ output.ok
    /\ Len(output.data) = 4

\* C25: while some load awaits retrieval the last dataLoadingStateChanged
\* event carries isLoading = true: no event with false is dispatched while a
\* load is pending.
C25_LoadingEventTracksLoad ==
    (\E c \in CallIds : InFlight(c)) => loadingEvent = "true"

\* C26: when loadData has returned a dataset, retrieved or taken from the
\* cache, processedData is that dataset.
C26_ProcessedDataIsReturned ==
    last.outcome \in {"success", "cacheHit"} => processedData = last.value

\* C27: selectedPoint is null or an index of the current chartData, from 0
\* to one below its length.
C27_SelectedPointValid ==
    selectedPoint = None
    \/ (chartData.some /\ selectedPoint.val >= 0 /\ selectedPoint.val < Len(chartData.val))

\* A pointSelected event carries the element of chartData at its index, of
\* the chartData of the moment of the click.
C27_EventCarriesClickedRecord ==
    [][pointSelected' # pointSelected =>
          /\ hasPoint(pointSelected'.val.index)
          /\ pointSelected'.val.data = chartData.val[pointSelected'.val.index + 1]
          /\ selectedPoint' = Some(pointSelected'.val.index)]_vars

=============================================================================
